---- MODULE Spec2Model ----
(***************************************************************************)
(* random_forest_example/load_ONNX_model.cpp: main() loads an ONNX model,  *)
(* enumerates its input and output node names, runs one inference and      *)
(* prints the first scalar of the first output tensor.                     *)
(*                                                                         *)
(* The ONNX runtime is external.  What it does for one model file and one  *)
(* input is fixed in `model`: the declared signature, the call (if any)    *)
(* that raises Ort::Exception, and the value the model predicts.  Two      *)
(* executions of main() against that same model are kept side by side      *)
(* (Runs), so that statements about repeated invocation can be checked.    *)
(***************************************************************************)
EXTENDS Integers, Sequences, FiniteSets, TLC

\* Largest number of declared input / output nodes of the models explored.
MaxInputs == 2
MaxOutputs == 2

\* The executions of main() that are compared.
Runs == {1, 2}

\* Values a prediction (or a stray read of memory) can print.
PredValues == {0, 1}

\* A name, or a message: a tag and an index.  NoName is the absent one.
NoName == <<"", 0>>

\* The model's declared k-th input / output name (k counted from 0).
DeclaredInputName(k) == <<"input", k>>
DeclaredOutputName(k) == <<"output", k>>

\* The points at which the runtime can raise Ort::Exception: a call and, for
\* a name query, the index queried.
FailPoints(n, m) ==
    {<<"Env", 0>>, <<"SessionOptions", 0>>, <<"Session", 0>>,
     <<"AllocatorWithDefaultOptions", 0>>,
     <<"GetInputCount", 0>>, <<"GetOutputCount", 0>>,
     <<"CreateCpu", 0>>, <<"CreateTensor", 0>>, <<"Run", 0>>,
     <<"GetTensorMutableData", 0>>}
    \cup {<<"GetInputNameAllocated", k>> : k \in 0 .. (n - 1)}
    \cup {<<"GetOutputNameAllocated", k>> : k \in 0 .. (m - 1)}

\* The model files and runtime behaviours explored.
Models ==
    UNION { UNION { { [num_inputs |-> n, num_outputs |-> m, fail_at |-> f, prediction |-> p] :
                        f \in FailPoints(n, m) \cup {NoName}, p \in PredValues } :
                    m \in 0 .. MaxOutputs } :
            n \in 0 .. MaxInputs }

VARIABLES
    model,              \* the model file and what the runtime does with it
    pc,                 \* pc[r]: the line main() is at
    env,                \* Ort::Env env: "none", "alive", "released"
    session,            \* Ort::Session session
    allocator,          \* Ort::AllocatorWithDefaultOptions allocator
    released,           \* the Env / Session releases made, in order
    heap,               \* the strings the allocator handed out: address -> [content, frees]
    input_node_names,   \* std::vector<const char*>: addresses, 0 is nullptr
    output_node_names,
    i,                  \* the loop index of the name loops
    run_call,           \* the arguments session.Run was called with
    output_tensors,     \* the number of tensors Run returned
    floatarr,           \* floatarr[0]
    out,                \* the lines written to std::cout
    calls,              \* the runtime calls made, in order
    raised,             \* the Ort::Exception thrown: <<>> or <<message>>
    stale_read,         \* a name was read after allocator.Free released it
    exit_code           \* {} until main returns, then {0} or {-1}

life == <<env, session, allocator, released>>
names == <<heap, input_node_names, output_node_names, i, stale_read>>
infer == <<run_call, output_tensors, floatarr>>
vars == <<model, pc, env, session, allocator, released, heap, input_node_names,
          output_node_names, i, run_call, output_tensors, floatarr, out, calls,
          raised, stale_read, exit_code>>

NoRun == [called |-> FALSE, input_names |-> <<>>, input_count |-> 0,
          output_names |-> <<>>, output_count |-> 0]

Init ==
    /\ model \in Models
    /\ pc = [r \in Runs |-> "L18"]
    /\ env = [r \in Runs |-> "none"]
    /\ session = [r \in Runs |-> "none"]
    /\ allocator = [r \in Runs |-> "none"]
    /\ released = [r \in Runs |-> <<>>]
    /\ heap = [r \in Runs |-> <<>>]
    /\ input_node_names = [r \in Runs |-> <<>>]
    /\ output_node_names = [r \in Runs |-> <<>>]
    /\ i = [r \in Runs |-> 0]
    /\ run_call = [r \in Runs |-> NoRun]
    /\ output_tensors = [r \in Runs |-> 0]
    /\ floatarr = [r \in Runs |-> 0]
    /\ out = [r \in Runs |-> <<>>]
    /\ calls = [r \in Runs |-> <<>>]
    /\ raised = [r \in Runs |-> <<>>]
    /\ stale_read = [r \in Runs |-> FALSE]
    /\ exit_code = [r \in Runs |-> {}]

----------------------------------------------------------------------------
\* Helpers shared by the statements of main().

\* The runtime raises Ort::Exception at this call.
Fails(op, k) == model.fail_at = <<op, k>>

\* A line of standard output.
Line(text, n, name) == [text |-> text, n |-> n, name |-> name]

\* One runtime call, with whether the session and the allocator were alive.
Call(r, op, k) ==
    [op |-> op, arg |-> k,
     live |-> session[r] = "alive" /\ allocator[r] = "alive"]

Log(r, op, k) == calls' = [calls EXCEPT ![r] = Append(@, Call(r, op, k))]

\* A destructor releases the object if it was constructed.
Destroy(x) == IF x = "alive" THEN "released" ELSE x

\* Variant: the environment is released before the session opened against it.
ScopeExitEnvFirst(sess, e) ==
    (IF e = "alive" THEN <<"env">> ELSE <<>>)
    \o (IF sess = "alive" THEN <<"session">> ELSE <<>>)

\* The order in which leaving the try block releases the session and the
\* environment: locals are destroyed in reverse order of construction.
ScopeExitOrder(sess, e) ==
    (IF sess = "alive" THEN <<"session">> ELSE <<>>)
    \o (IF e = "alive" THEN <<"env">> ELSE <<>>)

\* Leaving the try block, normally (line 80) or by stack unwinding.
ScopeExit(r) ==
    /\ released' = [released EXCEPT ![r] = @ \o ScopeExitOrder(session[r], env[r])]
    /\ allocator' = [allocator EXCEPT ![r] = Destroy(@)]
    /\ session' = [session EXCEPT ![r] = Destroy(@)]
    /\ env' = [env EXCEPT ![r] = Destroy(@)]

\* Variant: the error is swallowed and the next statement runs.
OnErrorContinue(next) == next

\* Where control goes when a call raises Ort::Exception: the handler at
\* line 81, whatever statement would have come next.
OnError(next) == "L81"

\* The call raises Ort::Exception: the stack unwinds, control reaches the handler.
Throw(r, op, k, next) ==
    /\ raised' = [raised EXCEPT ![r] = <<<<op, k>>>>]
    /\ pc' = [pc EXCEPT ![r] = OnError(next)]
    /\ IF OnError(next) = "L81" THEN ScopeExit(r) ELSE UNCHANGED life

Goto(r, next) == pc' = [pc EXCEPT ![r] = next]

----------------------------------------------------------------------------
\* Lines 18-29: environment, session options, session, allocator.

EnvCtor(r) ==
    /\ pc[r] = "L18"
    /\ Log(r, "Env", 0)
    /\ IF Fails("Env", 0)
       THEN Throw(r, "Env", 0, "L21")
       ELSE /\ env' = [env EXCEPT ![r] = "alive"]
            /\ Goto(r, "L21")
            /\ UNCHANGED <<session, allocator, released, raised>>
    /\ UNCHANGED <<model, names, infer, out, exit_code>>

\* Lines 21-22: Ort::SessionOptions and SetIntraOpNumThreads(1).
SessionOptionsCtor(r) ==
    /\ pc[r] = "L21"
    /\ Log(r, "SessionOptions", 0)
    /\ IF Fails("SessionOptions", 0)
       THEN Throw(r, "SessionOptions", 0, "L26")
       ELSE Goto(r, "L26") /\ UNCHANGED <<life, raised>>
    /\ UNCHANGED <<model, names, infer, out, exit_code>>

\* Lines 25-26: Ort::Session session(env, model_path, session_options).
SessionCtor(r) ==
    /\ pc[r] = "L26"
    /\ Log(r, "Session", 0)
    /\ IF Fails("Session", 0)
       THEN Throw(r, "Session", 0, "L29")
       ELSE /\ session' = [session EXCEPT ![r] = "alive"]
            /\ Goto(r, "L29")
            /\ UNCHANGED <<env, allocator, released, raised>>
    /\ UNCHANGED <<model, names, infer, out, exit_code>>

\* Line 29: Ort::AllocatorWithDefaultOptions allocator.
AllocatorCtor(r) ==
    /\ pc[r] = "L29"
    /\ Log(r, "AllocatorWithDefaultOptions", 0)
    /\ IF Fails("AllocatorWithDefaultOptions", 0)
       THEN Throw(r, "AllocatorWithDefaultOptions", 0, "L32")
       ELSE /\ allocator' = [allocator EXCEPT ![r] = "alive"]
            /\ Goto(r, "L32")
            /\ UNCHANGED <<env, session, released, raised>>
    /\ UNCHANGED <<model, names, infer, out, exit_code>>

----------------------------------------------------------------------------
\* Lines 31-53: the node counts and the node names.

\* allocator.Alloc inside Get*NameAllocated: a fresh string at the next address.
Alloc(h, content) == Append(h, [content |-> content, frees |-> 0])

\* allocator.Free(p).
Free(h, a) == IF a \in 1 .. Len(h) THEN [h EXCEPT ![a].frees = @ + 1] ELSE h

\* Reading the string at an address after its release is a stale read.
Stale(h, a) == a \in 1 .. Len(h) /\ h[a].frees > 0

\* Variant: get() instead of release(): the smart pointer keeps the string and
\* its destructor frees it at the end of the loop body.
keep(ptr) == [raw |-> ptr, held |-> ptr]

\* Variant: release() first and get() afterwards: nullptr is stored.
releaseThenGet(ptr) == [raw |-> 0, held |-> 0]

\* Ort::AllocatedStringPtr::release(): the raw pointer is handed over and the
\* smart pointer holds nothing (held = 0), so its destructor frees nothing.
release(ptr) == [raw |-> ptr, held |-> 0]

\* Lines 32-34, and the loop initialisation of line 37.
GetInputCount(r) ==
    /\ pc[r] = "L32"
    /\ Log(r, "GetInputCount", 0)
    /\ IF Fails("GetInputCount", 0)
       THEN /\ Throw(r, "GetInputCount", 0, "L37")
            /\ UNCHANGED <<input_node_names, out, i>>
       ELSE /\ input_node_names' =
                  [input_node_names EXCEPT ![r] = [k \in 1 .. model.num_inputs |-> 0]]
            /\ out' = [out EXCEPT ![r] =
                           Append(@, Line("Number of inputs = ", model.num_inputs, NoName))]
            /\ i' = [i EXCEPT ![r] = 0]
            /\ Goto(r, "L37")
            /\ UNCHANGED <<life, raised>>
    /\ UNCHANGED <<model, heap, output_node_names, stale_read, infer, exit_code>>

\* Lines 37-41: one pass of the input-name loop, or leaving it.
InputNameLoop(r) ==
    /\ pc[r] = "L37"
    /\ IF i[r] < Len(input_node_names[r])
       THEN /\ Log(r, "GetInputNameAllocated", i[r])
            /\ IF Fails("GetInputNameAllocated", i[r])
               THEN /\ Throw(r, "GetInputNameAllocated", i[r], "L44")
                    /\ UNCHANGED <<heap, input_node_names, out, i, stale_read>>
               ELSE LET h1 == Alloc(heap[r], DeclaredInputName(i[r]))
                        input_name == Len(h1)
                        moved == release(input_name)
                    IN  /\ out' = [out EXCEPT ![r] =
                                     Append(@, Line("Input", i[r], h1[input_name].content))]
                        /\ input_node_names' =
                              [input_node_names EXCEPT ![r][i[r] + 1] = moved.raw]
                        /\ heap' = [heap EXCEPT ![r] = Free(h1, moved.held)]
                        /\ i' = [i EXCEPT ![r] = @ + 1]
                        /\ stale_read' = [stale_read EXCEPT ![r] = @ \/ Stale(h1, input_name)]
                        /\ Goto(r, "L37")
                        /\ UNCHANGED <<life, raised>>
       ELSE /\ Goto(r, "L44")
            /\ UNCHANGED <<life, raised, heap, input_node_names, out, i, stale_read, calls>>
    /\ UNCHANGED <<model, output_node_names, infer, exit_code>>

\* Lines 44-46, and the loop initialisation of line 49.
GetOutputCount(r) ==
    /\ pc[r] = "L44"
    /\ Log(r, "GetOutputCount", 0)
    /\ IF Fails("GetOutputCount", 0)
       THEN /\ Throw(r, "GetOutputCount", 0, "L49")
            /\ UNCHANGED <<output_node_names, out, i>>
       ELSE /\ output_node_names' =
                  [output_node_names EXCEPT ![r] = [k \in 1 .. model.num_outputs |-> 0]]
            /\ out' = [out EXCEPT ![r] =
                           Append(@, Line("Number of outputs = ", model.num_outputs, NoName))]
            /\ i' = [i EXCEPT ![r] = 0]
            /\ Goto(r, "L49")
            /\ UNCHANGED <<life, raised>>
    /\ UNCHANGED <<model, heap, input_node_names, stale_read, infer, exit_code>>

\* Lines 49-53: one pass of the output-name loop, or leaving it.
OutputNameLoop(r) ==
    /\ pc[r] = "L49"
    /\ IF i[r] < Len(output_node_names[r])
       THEN /\ Log(r, "GetOutputNameAllocated", i[r])
            /\ IF Fails("GetOutputNameAllocated", i[r])
               THEN /\ Throw(r, "GetOutputNameAllocated", i[r], "L56")
                    /\ UNCHANGED <<heap, output_node_names, out, i, stale_read>>
               ELSE LET h1 == Alloc(heap[r], DeclaredOutputName(i[r]))
                        output_name == Len(h1)
                        moved == release(output_name)
                    IN  /\ out' = [out EXCEPT ![r] =
                                     Append(@, Line("Output", i[r], h1[output_name].content))]
                        /\ output_node_names' =
                              [output_node_names EXCEPT ![r][i[r] + 1] = moved.raw]
                        /\ heap' = [heap EXCEPT ![r] = Free(h1, moved.held)]
                        /\ i' = [i EXCEPT ![r] = @ + 1]
                        /\ stale_read' = [stale_read EXCEPT ![r] = @ \/ Stale(h1, output_name)]
                        /\ Goto(r, "L49")
                        /\ UNCHANGED <<life, raised>>
       ELSE /\ Goto(r, "L56")
            /\ UNCHANGED <<life, raised, heap, output_node_names, out, i, stale_read, calls>>
    /\ UNCHANGED <<model, input_node_names, infer, exit_code>>

----------------------------------------------------------------------------
\* Lines 55-71: the input tensor, inference, the prediction.

\* Lines 56-58: the input values and shape, Ort::MemoryInfo::CreateCpu.
CreateCpu(r) ==
    /\ pc[r] = "L56"
    /\ Log(r, "CreateCpu", 0)
    /\ IF Fails("CreateCpu", 0)
       THEN Throw(r, "CreateCpu", 0, "L59")
       ELSE Goto(r, "L59") /\ UNCHANGED <<life, raised>>
    /\ UNCHANGED <<model, names, infer, out, exit_code>>

\* Lines 59-61: Ort::Value::CreateTensor<float> over the caller's buffer.
CreateTensor(r) ==
    /\ pc[r] = "L59"
    /\ Log(r, "CreateTensor", 0)
    /\ IF Fails("CreateTensor", 0)
       THEN Throw(r, "CreateTensor", 0, "L64")
       ELSE Goto(r, "L64") /\ UNCHANGED <<life, raised>>
    /\ UNCHANGED <<model, names, infer, out, exit_code>>

\* Line 65: the input count handed to session.Run, the literal 1.
InputTensorCount == 1

\* Line 65: the arguments of session.Run.
RunArguments(in_names, out_names) ==
    [called |-> TRUE,
     input_names |-> in_names, input_count |-> InputTensorCount,
     output_names |-> out_names, output_count |-> Len(out_names)]

\* The name pointers Run reads: input_count of the input names, output_count
\* of the output names (those that lie inside the arrays).
RunReads(args) ==
    {args.input_names[k] : k \in 1 .. args.input_count \cap DOMAIN args.input_names}
    \cup {args.output_names[k] : k \in 1 .. args.output_count \cap DOMAIN args.output_names}

\* The process is killed (a signal): nothing is unwound, main does not return.
Crash(r) == pc' = [pc EXCEPT ![r] = "crashed"]

\* Lines 64-65: session.Run.  With an empty input-name array Run is still told
\* to read one name: that read lies outside the array (undefined behaviour),
\* and the process is killed or the runtime rejects what it read.
Run(r) ==
    /\ pc[r] = "L64"
    /\ Log(r, "Run", 0)
    /\ LET args == RunArguments(input_node_names[r], output_node_names[r])
       IN  /\ run_call' = [run_call EXCEPT ![r] = args]
           /\ stale_read' = [stale_read EXCEPT ![r] =
                                @ \/ \E a \in RunReads(args) : Stale(heap[r], a)]
           /\ IF args.input_count > Len(args.input_names)
              THEN \/ Crash(r) /\ UNCHANGED <<life, raised, output_tensors>>
                   \/ Throw(r, "Run", 0, "L68") /\ UNCHANGED output_tensors
              ELSE IF Fails("Run", 0)
                   THEN Throw(r, "Run", 0, "L68") /\ UNCHANGED output_tensors
                   ELSE /\ output_tensors' = [output_tensors EXCEPT ![r] = args.output_count]
                        /\ Goto(r, "L68")
                        /\ UNCHANGED <<life, raised>>
    /\ UNCHANGED <<model, heap, input_node_names, output_node_names, i, floatarr,
                   out, exit_code>>

\* Variant: floatarr[0] is read from memory the runtime never wrote.
FirstScalarStray(m) == PredValues

\* What floatarr[0] reads from the first output tensor: the model's prediction.
FirstScalar(m) == {m.prediction}

\* Line 68: output_tensors[0].GetTensorMutableData<float>().  With no output
\* tensor, output_tensors[0] lies outside the vector (undefined behaviour): the
\* process is killed, the runtime rejects the stray handle, or a stray value
\* is read.
GetTensorMutableData(r) ==
    /\ pc[r] = "L68"
    /\ Log(r, "GetTensorMutableData", 0)
    /\ IF output_tensors[r] >= 1
       THEN IF Fails("GetTensorMutableData", 0)
            THEN Throw(r, "GetTensorMutableData", 0, "L71") /\ UNCHANGED floatarr
            ELSE /\ \E v \in FirstScalar(model) : floatarr' = [floatarr EXCEPT ![r] = v]
                 /\ Goto(r, "L71")
                 /\ UNCHANGED <<life, raised>>
       ELSE \/ Crash(r) /\ UNCHANGED <<life, raised, floatarr>>
            \/ Throw(r, "GetTensorMutableData", 0, "L71") /\ UNCHANGED floatarr
            \/ /\ \E v \in PredValues : floatarr' = [floatarr EXCEPT ![r] = v]
               /\ Goto(r, "L71")
               /\ UNCHANGED <<life, raised>>
    /\ UNCHANGED <<model, names, run_call, output_tensors, out, exit_code>>

\* Line 71.
PrintPrediction(r) ==
    /\ pc[r] = "L71"
    /\ out' = [out EXCEPT ![r] = Append(@, Line("Prediction: ", floatarr[r], NoName))]
    /\ Goto(r, "L74")
    /\ UNCHANGED <<model, life, names, infer, calls, raised, exit_code>>

----------------------------------------------------------------------------
\* Lines 73-86: the clean-up loops, leaving the try block, the handler.

\* allocator.Free on every element of a name array.
FreeAll(h, ptrs) ==
    [a \in DOMAIN h |->
        [h[a] EXCEPT !.frees = @ + Cardinality({k \in DOMAIN ptrs : ptrs[k] = a})]]

FreeCalls(r, ptrs) == [k \in DOMAIN ptrs |-> Call(r, "Free", ptrs[k])]

\* Lines 74-76.
FreeInputNames(r) ==
    /\ pc[r] = "L74"
    /\ heap' = [heap EXCEPT ![r] = FreeAll(@, input_node_names[r])]
    /\ calls' = [calls EXCEPT ![r] = @ \o FreeCalls(r, input_node_names[r])]
    /\ Goto(r, "L77")
    /\ UNCHANGED <<model, life, input_node_names, output_node_names, i, stale_read,
                   infer, out, raised, exit_code>>

\* Lines 77-79.
FreeOutputNames(r) ==
    /\ pc[r] = "L77"
    /\ heap' = [heap EXCEPT ![r] = FreeAll(@, output_node_names[r])]
    /\ calls' = [calls EXCEPT ![r] = @ \o FreeCalls(r, output_node_names[r])]
    /\ Goto(r, "L80")
    /\ UNCHANGED <<model, life, input_node_names, output_node_names, i, stale_read,
                   infer, out, raised, exit_code>>

\* Line 80: the end of the try block.
EndTry(r) ==
    /\ pc[r] = "L80"
    /\ ScopeExit(r)
    /\ Goto(r, "L85")
    /\ UNCHANGED <<model, names, infer, out, calls, raised, exit_code>>

\* Line 85.
SuccessExitCode == 0

ReturnSuccess(r) ==
    /\ pc[r] = "L85"
    /\ exit_code' = [exit_code EXCEPT ![r] = {SuccessExitCode}]
    /\ Goto(r, "returned")
    /\ UNCHANGED <<model, life, names, infer, out, calls, raised>>

\* Line 83.
ErrorExitCode == -1

\* Lines 81-84: catch (const Ort::Exception&): report exception.what(), return -1.
\* Variant: the handler reports the error and returns 0.
HandlerResultSuccess(what) ==
    [line |-> Line("Error running model inference: ", 0, what), code |-> SuccessExitCode]

HandlerResult(what) ==
    [line |-> Line("Error running model inference: ", 0, what), code |-> ErrorExitCode]

Handler(r) ==
    /\ pc[r] = "L81"
    /\ out' = [out EXCEPT ![r] = Append(@, HandlerResult(raised[r][1]).line)]
    /\ exit_code' = [exit_code EXCEPT ![r] = {HandlerResult(raised[r][1]).code}]
    /\ Goto(r, "returned")
    /\ UNCHANGED <<model, life, names, infer, calls, raised>>

Next ==
    \E r \in Runs :
        \/ EnvCtor(r)
        \/ SessionOptionsCtor(r)
        \/ SessionCtor(r)
        \/ AllocatorCtor(r)
        \/ GetInputCount(r)
        \/ InputNameLoop(r)
        \/ GetOutputCount(r)
        \/ OutputNameLoop(r)
        \/ CreateCpu(r)
        \/ CreateTensor(r)
        \/ Run(r)
        \/ GetTensorMutableData(r)
        \/ PrintPrediction(r)
        \/ FreeInputNames(r)
        \/ FreeOutputNames(r)
        \/ EndTry(r)
        \/ ReturnSuccess(r)
        \/ Handler(r)


Spec == Init /\ [][Next]_vars

----------------------------------------------------------------------------
\* Vocabulary of the properties.

Returned(r) == pc[r] = "returned"

HasPrediction(o) == \E k \in DOMAIN o : o[k].text = "Prediction: "

ErrorLines(o) == SelectSeq(o, LAMBDA l : l.text = "Error running model inference: ")

CallsOf(r, op) == {k \in DOMAIN calls[r] : calls[r][k].op = op}

\* The count and name lines of a model with n inputs and m outputs.
NodeLines(n, m) ==
    <<Line("Number of inputs = ", n, NoName)>>
    \o [k \in 1 .. n |-> Line("Input", k - 1, DeclaredInputName(k - 1))]
    \o <<Line("Number of outputs = ", m, NoName)>>
    \o [k \in 1 .. m |-> Line("Output", k - 1, DeclaredOutputName(k - 1))]

\* The strings an array of name pointers points at.
Pointees(h, ptrs) ==
    [k \in DOMAIN ptrs |-> IF ptrs[k] \in DOMAIN h THEN h[ptrs[k]].content ELSE NoName]

\* The model has the shape the fixed request of main() is written for: at
\* least one declared input and one declared output.
ValidModel == model.num_inputs >= 1 /\ model.num_outputs >= 1

----------------------------------------------------------------------------
\* C1: when main has returned, on the success path and on the failure path
\* alike, every name string obtained from the session has been released
\* exactly once.  (The code leaves the strings unreleased when a later call
\* raises: the handler frees nothing.)
C1_NamesReleasedExactlyOnce ==
    \A r \in Runs :
        Returned(r) => \A a \in DOMAIN heap[r] : heap[r][a].frees = 1

\* C2: main returns 0 exactly when no runtime call raised; every raised error
\* reaches the one handler, is reported as exactly one error line carrying
\* the library's message, and main then returns -1.  A missing model file
\* (session construction raises) ends with -1.
C2_ExitCodeIffNoFailure ==
    \A r \in Runs :
        /\ exit_code[r] \in {{}, {0}, {-1}}
        /\ Returned(r) <=> exit_code[r] # {}
        /\ raised[r] # <<>> => pc[r] \in {"L81", "returned"}
        /\ raised[r] = <<>> => ErrorLines(out[r]) = <<>>
        /\ Returned(r) =>
              /\ exit_code[r] = {0} <=> raised[r] = <<>>
              /\ raised[r] # <<>> =>
                    /\ exit_code[r] = {-1}
                    /\ ErrorLines(out[r]) =
                          <<Line("Error running model inference: ", 0, raised[r][1])>>
                    /\ out[r][Len(out[r])] = ErrorLines(out[r])[1]
              /\ Fails("Session", 0) => exit_code[r] = {-1}
              /\ (ValidModel /\ model.fail_at = NoName) => exit_code[r] = {0}

C2_Witness ==
    /\ Fails("Session", 0)
    /\ Returned(1)
    /\ exit_code[1] = {-1}
    /\ Len(ErrorLines(out[1])) = 1

\* C3: a run whose inference call raised ends in the handler with -1 and
\* never prints a "Prediction:" line; no run has both a "Prediction:" line
\* and a non-zero exit (an error return or a killed process).
C3_NoPredictionOnFailure ==
    \A r \in Runs :
        /\ ~(HasPrediction(out[r]) /\ (exit_code[r] = {-1} \/ pc[r] = "crashed"))
        /\ raised[r] = << <<"Run", 0>> >> =>
              /\ ~HasPrediction(out[r])
              /\ pc[r] \in {"L81", "returned"}
              /\ Returned(r) => exit_code[r] = {-1}

C3_Witness ==
    /\ ValidModel
    /\ Fails("Run", 0)
    /\ Returned(1)
    /\ exit_code[1] = {-1}
    /\ run_call[1].called

\* C4: once inference has been reached, the output begins with
\* "Number of inputs = N", the N input names in declaration order,
\* "Number of outputs = M", the M output names in declaration order; and the
\* name arrays handed to Run point at those names in that order.
C4_NamesMatchSignature ==
    \A r \in Runs :
        run_call[r].called =>
            LET n == model.num_inputs
                m == model.num_outputs
            IN  /\ Len(out[r]) >= n + m + 2
                /\ SubSeq(out[r], 1, n + m + 2) = NodeLines(n, m)
                /\ Pointees(heap[r], run_call[r].input_names) =
                      [k \in 1 .. n |-> DeclaredInputName(k - 1)]
                /\ Pointees(heap[r], run_call[r].output_names) =
                      [k \in 1 .. m |-> DeclaredOutputName(k - 1)]

C4_Witness ==
    /\ run_call[1].called
    /\ model.num_inputs = 2
    /\ model.num_outputs = 2
    /\ Len(out[1]) = 6

\* C5: the output of a run holding a "Prediction:" line is exactly the input
\* count line, the input names, the output count line, the output names and
\* then that one prediction line, with nothing before, between or after; a
\* run that returns 0 has printed it; the exit code comes last.
C5_SuccessOrder ==
    \A r \in Runs :
        /\ HasPrediction(out[r]) =>
              out[r] = NodeLines(model.num_inputs, model.num_outputs)
                       \o <<Line("Prediction: ", floatarr[r], NoName)>>
        /\ (Returned(r) /\ exit_code[r] = {0}) => HasPrediction(out[r])
        /\ exit_code[r] # {} => Returned(r)

C5_Witness ==
    /\ ValidModel
    /\ Returned(1)
    /\ exit_code[1] = {0}
    /\ Len(out[1]) = model.num_inputs + model.num_outputs + 3

\* C6: when main has returned, by either path, every environment and session
\* that was constructed has been released, each once, the session before the
\* environment.
C6_EnvAndSessionReleased ==
    \A r \in Runs :
        Returned(r) =>
            LET envMade == CallsOf(r, "Env") # {} /\ ~Fails("Env", 0)
                sessMade == CallsOf(r, "Session") # {} /\ ~Fails("Session", 0)
            IN  /\ env[r] = IF envMade THEN "released" ELSE "none"
                /\ session[r] = IF sessMade THEN "released" ELSE "none"
                /\ released[r] = (IF sessMade THEN <<"session">> ELSE <<>>)
                                 \o (IF envMade THEN <<"env">> ELSE <<>>)

C6_Witness ==
    /\ Returned(1)
    /\ raised[1] = << <<"CreateTensor", 0>> >>
    /\ released[1] = <<"session", "env">>

\* C7: no name string is released more than once, none is read (printed or
\* handed to Run) after its release, and every allocator.Free happens while
\* the session and the allocator are alive.
C7_NoDoubleFreeNoStaleRead ==
    \A r \in Runs :
        /\ ~stale_read[r]
        /\ \A a \in DOMAIN heap[r] : heap[r][a].frees <= 1
        /\ \A k \in CallsOf(r, "Free") : calls[r][k].live

C7_Witness ==
    /\ ValidModel
    /\ Returned(1)
    /\ exit_code[1] = {0}
    /\ Len(heap[1]) = model.num_inputs + model.num_outputs
    /\ \A a \in DOMAIN heap[1] : heap[1][a].frees = 1

\* C8: the session is constructed at most once and inference is invoked at
\* most once; once an error has been raised the failing call is the last
\* runtime call of the run (no name query, tensor construction, inference or
\* name release follows it) and it was made only once.
C8_FailureIsFatal ==
    \A r \in Runs :
        /\ Cardinality(CallsOf(r, "Session")) <= 1
        /\ Cardinality(CallsOf(r, "Run")) <= 1
        /\ raised[r] # <<>> =>
              /\ calls[r] # <<>>
              /\ LET last == calls[r][Len(calls[r])]
                 IN  /\ <<last.op, last.arg>> = raised[r][1]
                     /\ \A k \in 1 .. (Len(calls[r]) - 1) :
                           <<calls[r][k].op, calls[r][k].arg>> # raised[r][1]

C8_Witness ==
    /\ model.num_outputs = 2
    /\ raised[1] = << <<"GetOutputNameAllocated", 1>> >>
    /\ Returned(1)

C10_RunBindsAllNames ==
    \A r \in Runs :
        /\ run_call[r].called =>
              /\ Len(run_call[r].input_names) = model.num_inputs
              /\ run_call[r].input_count = model.num_inputs
              /\ run_call[r].output_count = model.num_outputs
        /\ CallsOf(r, "GetTensorMutableData") # {} => output_tensors[r] >= 1
====
